---- MODULE Spec2Model ----
(***************************************************************************)
(* Model of the gateway-api route handlers: the constant-product router    *)
(* (status, sell-price, buy-price, sell, buy, behind the client            *)
(* certificate middleware) and the weighted-pool router (price, trade).    *)
(* A handler runs atomically between two awaits, so there is one action    *)
(* per stretch of synchronous code: the arrival of the request up to the   *)
(* first await, the continuation after the route query settles, and the    *)
(* continuation after the executor settles.                                *)
(***************************************************************************)
EXTENDS Integers, Sequences, FiniteSets, TLC

\* ---------------------------------------------------------------- bounds
\* largest numerator and denominator of a marginal price the router reports
MaxNum == 3
\* largest digit a client writes in the maxPrice parameter
MaxDigit == 2
\* largest amount (whole tokens) and largest expectedOut of the balancer SOR
MaxAmount == 2
\* largest gasUsed of a receipt
MaxGas == 2
\* longest output of the command isRunning executes
MaxStdout == 3
\* amounts given to the amount conversion: m * 10^k whole tokens with
\* m <= MaxMant and k <= MaxExp10
MaxMant == 12
MaxExp10 == 4

\* ------------------------------------------------------ program constants
\* significant digits of every price the constant-product router serialises
SigDigits == 8
\* denomMultiplier = 1e18, as its decimal exponent
DenomExp == 18
swapMoreThanMaxPriceError == "Swap price exceeds maxPrice"
\* the rejection text of /sell in the wording of the interface table
swapLessThanMaxPriceError_Reworded == "price lower than maxPrice"
swapLessThanMaxPriceError == "Swap price lower than maxPrice"
\* services/utils statusMessages (the texts the handlers send)
statusMessages ==
  [ no_pool_available |-> "no_pool_available",
    operation_error   |-> "operation_error",
    ssl_cert_invalid  |-> "ssl_cert_invalid",
    ssl_cert_required |-> "ssl_cert_required" ]

Tokens == {"TOKEN_A", "TOKEN_B"}
QuoteEndpoints == {"sell-price", "buy-price"}
TradeEndpoints == {"sell", "buy"}
BalancerEndpoints == {"bal-price", "bal-trade"}
UniswapEndpoints == {"status"} \cup QuoteEndpoints \cup TradeEndpoints
Endpoints == UniswapEndpoints \cup BalancerEndpoints

\* ------------------------------------------------------------ JS values
\* a number, NaN or undefined, as a maxPrice variable can hold them
Undefined == [kind |-> "undefined", val |-> 0]
NaN == [kind |-> "nan", val |-> 0]
Num(n) == [kind |-> "number", val |-> n]

\* a request parameter: absent, or a string (a sequence of characters)
DigitChars == <<"0", "1", "2", "3", "4", "5", "6", "7", "8", "9">>
IsDigit(c) == \E i \in 1..Len(DigitChars) : DigitChars[i] = c
DigitVal(c) == (CHOOSE i \in 1..Len(DigitChars) : DigitChars[i] = c) - 1
Absent == [present |-> FALSE, text |-> <<>>]
Str(s) == [present |-> TRUE, text |-> s]

\* truthiness of a parameter in `if (paramData.maxPrice)`
Truthy(p) == p.present /\ p.text # <<>>

\* the digits a string starts with
RECURSIVE DigitPrefix(_)
DigitPrefix(s) ==
  IF s = <<>> \/ ~IsDigit(Head(s)) THEN <<>>
  ELSE <<Head(s)>> \o DigitPrefix(Tail(s))

RECURSIVE DigitsValue(_)
DigitsValue(s) ==
  IF s = <<>> THEN 0
  ELSE 10 * DigitsValue(SubSeq(s, 1, Len(s) - 1)) + DigitVal(s[Len(s)])

\* a string without the spaces it starts with
RECURSIVE TrimLeft(_)
TrimLeft(s) == IF s # <<>> /\ Head(s) = " " THEN TrimLeft(Tail(s)) ELSE s

\* parseFloat: the number the longest numeric prefix denotes, after leading
\* white space, NaN if none
parseFloat(s) ==
  LET d == DigitPrefix(TrimLeft(s)) IN
  IF d = <<>> THEN NaN ELSE Num(DigitsValue(d))

\* the decimal digits of a natural number, as String(n) gives them
RECURSIVE toString(_)
toString(n) ==
  IF n < 10 THEN <<DigitChars[n + 1]>>
  ELSE toString(n \div 10) \o <<DigitChars[(n % 10) + 1]>>

\* parseInt of a value that is first converted to its string
parseInt(n) == parseFloat(toString(n))

\* ----------------------------------------------------------- amount codec
\* an integer m * 10^k held in a Number; for the amounts and products below
\* the double is the nearest one to m * 10^k, whose shortest decimal digits
\* are those of m
RECURSIVE Zeros(_)
Zeros(n) == IF n = 0 THEN <<>> ELSE <<"0">> \o Zeros(n - 1)

RECURSIVE StripZeros(_)
StripZeros(d) ==
  IF Len(d) > 1 /\ d[Len(d)] = "0" THEN StripZeros(SubSeq(d, 1, Len(d) - 1)) ELSE d

\* paramData.amount * denomMultiplier
TimesDenom(a) == [m |-> a.m, k |-> a.k + DenomExp]

\* String(x) of the Number x: all the decimal digits below 1e21, exponent
\* notation (d.ddde+n) from 1e21 on
NumberToString(x) ==
  LET d == toString(x.m)
      n == Len(d) + x.k
      sig == StripZeros(d)
  IN  IF n <= 21 THEN d \o Zeros(x.k)
      ELSE <<Head(sig)>> \o (IF Len(sig) > 1 THEN <<".">> \o Tail(sig) ELSE <<>>)
           \o <<"e", "+">> \o toString(n - 1)

\* new BigNumber(parseInt(paramData.amount * denomMultiplier)): parseInt
\* converts the product to its string and reads the digits it starts with;
\* the result is kept as its decimal digits
toBaseUnits(a) == DigitPrefix(NumberToString(TimesDenom(a)))

\* the amounts the conversion is exercised on
Amounts == [m : 1..MaxMant, k : 0..MaxExp10]
\* a whole number of tokens as an amount
Whole(n) == [m |-> n, k |-> 0]

\* `!v` of a number, NaN or undefined
Not(v) == v.kind # "number" \/ v.val = 0

\* --------------------------------------------------------------- prices
RECURSIVE Pow10(_)
Pow10(k) == IF k = 0 THEN 1 ELSE 10 * Pow10(k - 1)

\* Price.invert() of the SDK: numerator and denominator swapped
invert(f) == [num |-> f.den, den |-> f.num]

\* the exponent e that puts num * 10^e / den in [10^(SigDigits-1), 10^SigDigits)
RECURSIVE SigExp(_, _)
SigExp(f, e) ==
  IF f.num * Pow10(e) >= f.den * Pow10(SigDigits - 1) THEN e ELSE SigExp(f, e + 1)

\* Price.toSignificant(8): the decimal m * 10^-e nearest to the fraction with
\* SigDigits significant digits, halves rounded up
toSignificant(f) ==
  LET e == SigExp(f, 0)
  IN  [m |-> (2 * f.num * Pow10(e) + f.den) \div (2 * f.den), e |-> e]

NoPrice == [m |-> 0, e |-> 0]

\* `price >= maxPrice` and `price <= maxPrice` of a serialised price (a decimal
\* string, coerced to its number) against a number, NaN or undefined
GE(p, v) == v.kind = "number" /\ p.m >= v.val * Pow10(p.e)
LE(p, v) == v.kind = "number" /\ p.m <= v.val * Pow10(p.e)

\* the balancer price amount / expectedOut is a float, kept as the fraction
\* (amount and expectedOut carry the same 1e18 factor; x / 0 is Infinity)
FloatLE(f, v) == v.kind = "number" /\ f.num <= v.val * f.den

\* ---------------------------------------------------------- price guard
\* let maxPrice; if (paramData.maxPrice) { maxPrice = parseFloat(...) }
ParseMaxPrice(p) == IF Truthy(p) THEN parseFloat(p.text) ELSE Undefined

\* if (!maxPrice || price >= maxPrice) of /sell
SellGuard(maxPrice, price) == Not(maxPrice) \/ GE(price, maxPrice)

\* if (!maxPrice || price <= maxPrice) of /buy
BuyGuard(maxPrice, price) == Not(maxPrice) \/ LE(price, maxPrice)

\* if (!maxPrice || price <= maxPrice) of the balancer /trade
TradeGuard(maxPrice, price) == Not(maxPrice) \/ FloatLE(price, maxPrice)

\* ------------------------------------------------------------- failures
NoErr == [name |-> "", hasReason |-> FALSE, reason |-> ""]
\* what an adapter call (route query, executor) can reject with
Failures ==
  { [name |-> "Error", hasReason |-> TRUE,  reason |-> "execution reverted"],
    [name |-> "Error", hasReason |-> TRUE,  reason |-> ""],
    [name |-> "Error", hasReason |-> FALSE, reason |-> ""] }
\* reading a property of null
TypeError == [name |-> "TypeError", hasReason |-> FALSE, reason |-> ""]

\* a catch block that drops the failure's reason
CatchReason_Generic(err) == statusMessages.operation_error

\* the catch block of every constant-product handler:
\* err.reason ? reason = err.reason : reason = statusMessages.operation_error
CatchReason(err) ==
  IF err.hasReason /\ err.reason # "" THEN err.reason
  ELSE statusMessages.operation_error

\* res.status(500).json({ error: reason, message: err }); a message is kept
\* as the sequence of its parts, '' being the empty sequence
Classify(err) ==
  [status |-> 500, body |-> [error |-> CatchReason(err), message |-> <<err>>]]

\* -------------------------------------------------------- adapter results
Fractions == [num : 1..MaxNum, den : 1..MaxNum]
NoFraction == [num |-> 0, den |-> 0]
\* uniswap.fetch_route: a route, null, or a rejection
RouteResults ==
  {[kind |-> "route", midPrice |-> f, err |-> NoErr] : f \in Fractions}
  \cup {[kind |-> "null", midPrice |-> NoFraction, err |-> NoErr]}
  \cup {[kind |-> "error", midPrice |-> NoFraction, err |-> e] : e \in Failures}
NoRouteResult == [kind |-> "none", midPrice |-> NoFraction, err |-> NoErr]

\* balancer.getSwaps: { swaps, expectedOut }, or a rejection
SwapsResults ==
  {[kind |-> "swaps", expectedOut |-> x, err |-> NoErr] : x \in 0..MaxAmount}
  \cup {[kind |-> "error", expectedOut |-> 0, err |-> e] : e \in Failures}
NoSwapsResult == [kind |-> "none", expectedOut |-> 0, err |-> NoErr]

\* the receipt the ledger holds for a confirmed swap
Receipts == [transactionHash : {"0xaa", "0xbb"}, gasUsed : 1..MaxGas, status : {0, 1}]
NoReceipt == [transactionHash |-> "", gasUsed |-> 0, status |-> 0]
\* uniswap.swapExactIn / balancer.batchSwapExactIn: a receipt, or a rejection
ExecResults ==
  {[kind |-> "receipt", receipt |-> t, err |-> NoErr] : t \in Receipts}
  \cup {[kind |-> "error", receipt |-> NoReceipt, err |-> e] : e \in Failures}
NoExecResult == [kind |-> "none", receipt |-> NoReceipt, err |-> NoErr]

\* ---------------------------------------------------------------- inputs
\* the strings a client sends as maxPrice: '', a digit, letters, digit + letters
MaxPriceTexts ==
  {<<>>, <<"x">>} \cup {<<DigitChars[d + 1]>> : d \in 0..MaxDigit}
  \cup {<<"1", "x">>}
MaxPriceParams == {Absent} \cup {Str(t) : t \in MaxPriceTexts}

Params ==
  [ base : Tokens, quote : Tokens, amount : 1..MaxAmount,
    maxPrice : MaxPriceParams, keyValid : BOOLEAN ]
NoParams ==
  [ base |-> "", quote |-> "", amount |-> 0, maxPrice |-> Absent, keyValid |-> FALSE ]

\* req.client.authorized and whether the peer certificate has a subject
Certs ==
  { [authorized |-> TRUE,  subject |-> TRUE],
    [authorized |-> FALSE, subject |-> TRUE],
    [authorized |-> FALSE, subject |-> FALSE] }

\* ----------------------------------------------------------------- state
\* reqs[s]: the request in flight on connection s
\*   pc         "idle", "awaitRoute", "awaitExec", "finished" (the handler
\*              returned) or "crashed" (the handler's promise rejected)
\*   params     paramData / req.query; the balancer handlers read tokenIn
\*              from base and tokenOut from quote
\*   wallet     an ethers.Wallet was constructed
\*   maxPrice   the handler's maxPrice variable
\*   price      the handler's price variable (constant-product handlers)
\*   floatPrice the handler's price variable (balancer handlers)
\*   routeCalls the (tokenIn, tokenOut) of each route query
\*   guardEvals the (price, bound, passed) of each evaluation of the guard
\*   execCalls  the arguments of each call of the executor
\*   resp       the responses sent, in order
\* env: process.env, read by the balancer /trade handler
\* codec: one evaluation of the amount conversion: its amount and, once
\*        converted, the base units
\* boot: the start-up of the server
VARIABLES reqs, env, codec, boot
vars == <<reqs, env, codec, boot>>

Idle ==
  [ pc |-> "idle", ep |-> "", cert |-> [authorized |-> FALSE, subject |-> FALSE],
    params |-> NoParams, wallet |-> FALSE, maxPrice |-> Undefined,
    price |-> NoPrice, floatPrice |-> NoFraction,
    routeCalls |-> <<>>, route |-> NoRouteResult, swaps |-> NoSwapsResult,
    guardEvals |-> <<>>, execCalls |-> <<>>, exec |-> NoExecResult,
    resp |-> <<>> ]

CodecIdle == [pc |-> "idle", amount |-> Whole(0), units |-> <<>>]
\* boot: pc "idle", "start" (before the try block of index.js), "listening"
\* (the try block ran, the exec callback is pending) or "reported" (the
\* callback ran); DB_PID is process.env.DB_PID, serverConfig the logged
\* object, stdout and status what the callback received and reported
NoConfig == [built |-> FALSE, pid |-> Absent]
BootIdle ==
  [ pc |-> "idle", portIsPipe |-> FALSE, DB_PID |-> Absent,
    serverConfig |-> NoConfig, stdout |-> <<>>, status |-> Absent ]

Slots == {1}
Init ==
  /\ reqs = [s \in Slots |-> Idle]
  /\ env \in [ETH_PRIVATE_KEY_valid : BOOLEAN]
  /\ codec = CodecIdle
  /\ boot = BootIdle

\* a request arrives on an idle connection
Arrival(ep, cert, params) ==
  [Idle EXCEPT !.ep = ep, !.cert = cert, !.params = params]

\* res.status(status).json(body), after which the handler returns
Respond(r, status, body) ==
  [r EXCEPT !.resp = Append(@, [status |-> status, body |-> body]),
            !.pc = "finished"]

\* the catch block: the failure is classified and sent
Catch(r, err) ==
  [r EXCEPT !.resp = Append(@, Classify(err)), !.pc = "finished"]

\* an exception outside any try: the async handler's promise rejects
Crash(r) == [r EXCEPT !.pc = "crashed"]

\* a middleware that lets every request through
Authorized_Always(cert) == TRUE

\* router.use: the client certificate middleware of the constant-product
\* router; TRUE when it calls next()
Authorized(cert) == cert.authorized

\* the middleware's answer to a request it does not let through
Denied(s) ==
  \E ep \in UniswapEndpoints, cert \in Certs, params \in Params :
    /\ reqs[s].pc = "idle"
    /\ ~Authorized(cert)
    /\ reqs' = [reqs EXCEPT ![s] =
         Respond(Arrival(ep, cert, params),
                 IF cert.subject THEN 403 ELSE 401,
                 [error |-> IF cert.subject THEN statusMessages.ssl_cert_invalid
                                            ELSE statusMessages.ssl_cert_required])]
    /\ UNCHANGED <<env, codec, boot>>

\* POST /
Status(s) ==
  \E cert \in Certs, params \in Params :
    /\ reqs[s].pc = "idle"
    /\ Authorized(cert)
    /\ reqs' = [reqs EXCEPT ![s] =
         Respond(Arrival("status", cert, params), 200, [connection |-> TRUE])]
    /\ UNCHANGED <<env, codec, boot>>

\* the body of a quote (network, timestamp, latency and expectedOut/expectedIn
\* are left out)
QuoteBody(r, price, path) ==
  [ base |-> r.params.base, quote |-> r.params.quote,
    amount |-> r.params.amount, price |-> price, swaps |-> path ]

\* the body of a trade: the quote's fields and the receipt's
TradeBody(r, price, path, txObj) ==
  [ base |-> r.params.base, quote |-> r.params.quote,
    amount |-> r.params.amount, price |-> price, swaps |-> path,
    gasUsed |-> parseInt(txObj.gasUsed), txHash |-> txObj.transactionHash,
    status |-> txObj.status ]

NoPoolBody == [error |-> statusMessages.no_pool_available, message |-> <<>>]

\* route.path of the route the router found for a query
Path(call) == <<call.tokenIn, call.tokenOut>>

\* /sell-price with the prelude of /sell: the wallet is constructed and
\* maxPrice parsed
SellPrice_WithWallet(s) ==
  \E cert \in Certs, params \in Params :
    /\ reqs[s].pc = "idle"
    /\ Authorized(cert)
    /\ reqs' = [reqs EXCEPT ![s] =
         [Arrival("sell-price", cert, params) EXCEPT
            !.wallet = TRUE,
            !.maxPrice = ParseMaxPrice(params.maxPrice),
            !.routeCalls = <<[tokenIn |-> params.base, tokenOut |-> params.quote]>>,
            !.pc = "awaitRoute"]]
    /\ UNCHANGED <<env, codec, boot>>

\* POST /sell-price up to the await of fetch_route
SellPrice(s) ==
  \E cert \in Certs, params \in Params :
    /\ reqs[s].pc = "idle"
    /\ Authorized(cert)
    /\ reqs' = [reqs EXCEPT ![s] =
         [Arrival("sell-price", cert, params) EXCEPT
            !.routeCalls = <<[tokenIn |-> params.base, tokenOut |-> params.quote]>>,
            !.pc = "awaitRoute"]]
    /\ UNCHANGED <<env, codec, boot>>

\* POST /sell-price once fetch_route settles
SellPriceRoute(s) ==
  \E res \in RouteResults :
    LET r == [reqs[s] EXCEPT !.route = res] IN
    /\ reqs[s].pc = "awaitRoute"
    /\ reqs[s].ep = "sell-price"
    /\ reqs' = [reqs EXCEPT ![s] =
         CASE res.kind = "error" -> Catch(r, res.err)
           [] res.kind = "null"  -> Respond(r, 200, NoPoolBody)
           [] res.kind = "route" ->
                Respond(r, 200, QuoteBody(r, toSignificant(res.midPrice),
                                          Path(r.routeCalls[1])))]
    /\ UNCHANGED <<env, codec, boot>>

\* POST /buy-price up to the await of fetch_route
BuyPrice(s) ==
  \E cert \in Certs, params \in Params :
    /\ reqs[s].pc = "idle"
    /\ Authorized(cert)
    /\ reqs' = [reqs EXCEPT ![s] =
         [Arrival("buy-price", cert, params) EXCEPT
            !.routeCalls = <<[tokenIn |-> params.quote, tokenOut |-> params.base]>>,
            !.pc = "awaitRoute"]]
    /\ UNCHANGED <<env, codec, boot>>

\* POST /buy-price once fetch_route settles
BuyPriceRoute(s) ==
  \E res \in RouteResults :
    LET r == [reqs[s] EXCEPT !.route = res] IN
    /\ reqs[s].pc = "awaitRoute"
    /\ reqs[s].ep = "buy-price"
    /\ reqs' = [reqs EXCEPT ![s] =
         CASE res.kind = "error" -> Catch(r, res.err)
           [] res.kind = "null"  -> Respond(r, 200, NoPoolBody)
           [] res.kind = "route" ->
                Respond(r, 200, QuoteBody(r, toSignificant(invert(res.midPrice)),
                                          Path(r.routeCalls[1])))]
    /\ UNCHANGED <<env, codec, boot>>

\* the arguments of fetch_route in /sell and /buy
SellRouteCall(params) == [tokenIn |-> params.base, tokenOut |-> params.quote]
BuyRouteCall(params) == [tokenIn |-> params.quote, tokenOut |-> params.base]

\* the price of /buy without the inversion
BuyObservedPrice_NotInverted(route) == toSignificant(route.midPrice)

\* the price variable of /sell and /buy
SellObservedPrice(route) == toSignificant(route.midPrice)
BuyObservedPrice(route) == toSignificant(invert(route.midPrice))

\* the tokenIn argument of swapExactIn in /sell and /buy
SellExecTokenIn(params) == params.base
BuyExecTokenIn(params) == params.quote

\* /sell keeping the request's private key in process.env
Sell_StoresKey(s) ==
  \E cert \in Certs, params \in Params :
    LET r == Arrival("sell", cert, params) IN
    /\ reqs[s].pc = "idle"
    /\ Authorized(cert)
    /\ reqs' = [reqs EXCEPT ![s] =
         IF ~params.keyValid THEN Crash(r)
         ELSE [r EXCEPT !.wallet = TRUE,
                        !.maxPrice = ParseMaxPrice(params.maxPrice),
                        !.routeCalls = <<SellRouteCall(params)>>,
                        !.pc = "awaitRoute"]]
    /\ env' = [env EXCEPT !.ETH_PRIVATE_KEY_valid = params.keyValid]
    /\ UNCHANGED <<codec, boot>>

\* POST /sell up to the await of fetch_route: the wallet is constructed and
\* maxPrice parsed before the try
Sell(s) ==
  \E cert \in Certs, params \in Params :
    LET r == Arrival("sell", cert, params) IN
    /\ reqs[s].pc = "idle"
    /\ Authorized(cert)
    /\ reqs' = [reqs EXCEPT ![s] =
         IF ~params.keyValid THEN Crash(r)
         ELSE [r EXCEPT !.wallet = TRUE,
                        !.maxPrice = ParseMaxPrice(params.maxPrice),
                        !.routeCalls = <<SellRouteCall(params)>>,
                        !.pc = "awaitRoute"]]
    /\ UNCHANGED <<env, codec, boot>>

\* the branch without its guard: the executor is called whatever the guard says
Guarded_Unguarded(r, price, passed, tokenIn, rejection) ==
  [r EXCEPT !.price = price,
            !.guardEvals = Append(@, [price |-> price, bound |-> r.maxPrice,
                                      passed |-> passed]),
            !.execCalls = Append(@, [tokenIn |-> tokenIn,
                                     path |-> Path(r.routeCalls[1]),
                                     amount |-> toBaseUnits(Whole(r.params.amount))]),
            !.pc = "awaitExec"]

\* the guarded branch, of the same shape in /sell and /buy: the guard is
\* evaluated on the price; the executor is called when it passes, the
\* rejection is sent when it does not
Guarded(r, price, passed, tokenIn, rejection) ==
  LET g == [r EXCEPT !.price = price,
                     !.guardEvals = Append(@, [price |-> price, bound |-> r.maxPrice,
                                               passed |-> passed])]
  IN  IF passed
      THEN [g EXCEPT !.execCalls = Append(@, [tokenIn |-> tokenIn,
                                              path |-> Path(r.routeCalls[1]),
                                              amount |-> toBaseUnits(Whole(r.params.amount))]),
                     !.pc = "awaitExec"]
      ELSE Respond(g, 200, rejection)

\* POST /sell once fetch_route settles: route.midPrice of a null route throws
SellRoute(s) ==
  \E res \in RouteResults :
    LET r == [reqs[s] EXCEPT !.route = res]
        price == SellObservedPrice(res)
    IN
    /\ reqs[s].pc = "awaitRoute"
    /\ reqs[s].ep = "sell"
    /\ reqs' = [reqs EXCEPT ![s] =
         CASE res.kind = "error" -> Catch(r, res.err)
           [] res.kind = "null"  -> Catch(r, TypeError)
           [] res.kind = "route" ->
                Guarded(r, price, SellGuard(r.maxPrice, price),
                        SellExecTokenIn(r.params),
                        [error |-> swapLessThanMaxPriceError,
                         message |-> <<"Swap price ", price,
                                       " lower than maxPrice ", r.maxPrice>>])]
    /\ UNCHANGED <<env, codec, boot>>

\* /sell with a retry: a failed swapExactIn is called again
SellExec_Retry(s) ==
  \E res \in ExecResults :
    LET r == [reqs[s] EXCEPT !.exec = res] IN
    /\ reqs[s].pc = "awaitExec"
    /\ reqs[s].ep = "sell"
    /\ Len(reqs[s].execCalls) < 3
    /\ reqs' = [reqs EXCEPT ![s] =
         IF res.kind = "error"
         THEN [r EXCEPT !.execCalls = Append(@, r.execCalls[1])]
         ELSE Respond(r, 200, TradeBody(r, r.price, Path(r.routeCalls[1]),
                                        res.receipt))]
    /\ UNCHANGED <<env, codec, boot>>

\* /sell with a statement that throws after the success response was sent:
\* the catch block sends its response too
SellExec_ThrowAfterSend(s) ==
  \E res \in ExecResults :
    LET r == [reqs[s] EXCEPT !.exec = res] IN
    /\ reqs[s].pc = "awaitExec"
    /\ reqs[s].ep = "sell"
    /\ reqs' = [reqs EXCEPT ![s] =
         IF res.kind = "error" THEN Catch(r, res.err)
         ELSE Catch(Respond(r, 200, TradeBody(r, r.price, Path(r.routeCalls[1]),
                                              res.receipt)), TypeError)]
    /\ UNCHANGED <<env, codec, boot>>

\* POST /sell once swapExactIn settles
SellExec(s) ==
  \E res \in ExecResults :
    LET r == [reqs[s] EXCEPT !.exec = res] IN
    /\ reqs[s].pc = "awaitExec"
    /\ reqs[s].ep = "sell"
    /\ reqs' = [reqs EXCEPT ![s] =
         IF res.kind = "error" THEN Catch(r, res.err)
         ELSE Respond(r, 200, TradeBody(r, r.price, Path(r.routeCalls[1]),
                                        res.receipt))]
    /\ UNCHANGED <<env, codec, boot>>

\* POST /buy up to the await of fetch_route
Buy(s) ==
  \E cert \in Certs, params \in Params :
    LET r == Arrival("buy", cert, params) IN
    /\ reqs[s].pc = "idle"
    /\ Authorized(cert)
    /\ reqs' = [reqs EXCEPT ![s] =
         IF ~params.keyValid THEN Crash(r)
         ELSE [r EXCEPT !.wallet = TRUE,
                        !.maxPrice = ParseMaxPrice(params.maxPrice),
                        !.routeCalls = <<BuyRouteCall(params)>>,
                        !.pc = "awaitRoute"]]
    /\ UNCHANGED <<env, codec, boot>>

\* POST /buy once fetch_route settles
BuyRoute(s) ==
  \E res \in RouteResults :
    LET r == [reqs[s] EXCEPT !.route = res]
        price == BuyObservedPrice(res)
    IN
    /\ reqs[s].pc = "awaitRoute"
    /\ reqs[s].ep = "buy"
    /\ reqs' = [reqs EXCEPT ![s] =
         CASE res.kind = "error" -> Catch(r, res.err)
           [] res.kind = "null"  -> Catch(r, TypeError)
           [] res.kind = "route" ->
                Guarded(r, price, BuyGuard(r.maxPrice, price),
                        BuyExecTokenIn(r.params),
                        [error |-> swapMoreThanMaxPriceError,
                         message |-> <<"Swap price ", price,
                                       " exceeds maxPrice ", r.maxPrice>>])]
    /\ UNCHANGED <<env, codec, boot>>

\* POST /buy once swapExactIn settles
BuyExec(s) ==
  \E res \in ExecResults :
    LET r == [reqs[s] EXCEPT !.exec = res] IN
    /\ reqs[s].pc = "awaitExec"
    /\ reqs[s].ep = "buy"
    /\ reqs' = [reqs EXCEPT ![s] =
         IF res.kind = "error" THEN Catch(r, res.err)
         ELSE Respond(r, 200, TradeBody(r, r.price, Path(r.routeCalls[1]),
                                        res.receipt))]
    /\ UNCHANGED <<env, codec, boot>>

\* ------------------------------------------------- weighted-pool router
\* the balancer router has no middleware and no try/catch

\* GET /price up to the await of getSwaps
BalPrice(s) ==
  \E cert \in Certs, params \in Params :
    /\ reqs[s].pc = "idle"
    /\ reqs' = [reqs EXCEPT ![s] =
         [Arrival("bal-price", cert, params) EXCEPT
            !.routeCalls = <<[tokenIn |-> params.base, tokenOut |-> params.quote]>>,
            !.pc = "awaitRoute"]]
    /\ UNCHANGED <<env, codec, boot>>

\* price: amount / expectedOut
BalancerPrice(amount, expectedOut) == [num |-> amount, den |-> expectedOut]

\* GET /price once getSwaps settles
BalPriceSwaps(s) ==
  \E res \in SwapsResults :
    LET r == [reqs[s] EXCEPT !.swaps = res] IN
    /\ reqs[s].pc = "awaitRoute"
    /\ reqs[s].ep = "bal-price"
    /\ reqs' = [reqs EXCEPT ![s] =
         IF res.kind = "error" THEN Crash(r)
         ELSE Respond(r, 200,
                [ tokenIn |-> r.params.base, tokenOut |-> r.params.quote,
                  amount |-> r.params.amount,
                  price |-> BalancerPrice(r.params.amount, res.expectedOut),
                  swaps |-> Path(r.routeCalls[1]) ])]
    /\ UNCHANGED <<env, codec, boot>>

\* GET /trade up to the await of getSwaps: the wallet is built from
\* process.env.ETH_PRIVATE_KEY
BalTrade(s) ==
  \E cert \in Certs, params \in Params :
    LET r == Arrival("bal-trade", cert, params) IN
    /\ reqs[s].pc = "idle"
    /\ reqs' = [reqs EXCEPT ![s] =
         IF ~env.ETH_PRIVATE_KEY_valid THEN Crash(r)
         ELSE [r EXCEPT !.wallet = TRUE,
                        !.maxPrice = ParseMaxPrice(params.maxPrice),
                        !.routeCalls = <<[tokenIn |-> params.base,
                                          tokenOut |-> params.quote]>>,
                        !.pc = "awaitRoute"]]
    /\ UNCHANGED <<env, codec, boot>>

\* GET /trade once getSwaps settles: a rejected price is only logged
BalTradeSwaps(s) ==
  \E res \in SwapsResults :
    LET r == [reqs[s] EXCEPT !.swaps = res]
        price == BalancerPrice(r.params.amount, res.expectedOut)
        passed == TradeGuard(r.maxPrice, price)
        g == [r EXCEPT !.floatPrice = price,
                       !.guardEvals = Append(@, [price |-> price, bound |-> r.maxPrice,
                                                 passed |-> passed])]
    IN
    /\ reqs[s].pc = "awaitRoute"
    /\ reqs[s].ep = "bal-trade"
    /\ reqs' = [reqs EXCEPT ![s] =
         CASE res.kind = "error" -> Crash(r)
           [] res.kind = "swaps" /\ passed ->
                [g EXCEPT !.execCalls = Append(@, [tokenIn |-> r.params.base,
                                                   path |-> Path(r.routeCalls[1]),
                                                   amount |-> toBaseUnits(Whole(r.params.amount))]),
                          !.pc = "awaitExec"]
           [] res.kind = "swaps" /\ ~passed -> [g EXCEPT !.pc = "finished"]]
    /\ UNCHANGED <<env, codec, boot>>

\* GET /trade once batchSwapExactIn settles: its result is sent as txHash
BalTradeExec(s) ==
  \E res \in ExecResults :
    LET r == [reqs[s] EXCEPT !.exec = res] IN
    /\ reqs[s].pc = "awaitExec"
    /\ reqs[s].ep = "bal-trade"
    /\ reqs' = [reqs EXCEPT ![s] =
         IF res.kind = "error" THEN Crash(r)
         ELSE Respond(r, 200,
                [ tokenIn |-> r.params.base, tokenOut |-> r.params.quote,
                  amount |-> r.params.amount, price |-> r.floatPrice,
                  txHash |-> res.receipt.transactionHash ])]
    /\ UNCHANGED <<env, codec, boot>>

\* the connection of a request whose handler is over is released
Close(s) ==
  /\ reqs[s].pc \in {"finished", "crashed"}
  /\ reqs' = [reqs EXCEPT ![s] = Idle]
  /\ UNCHANGED <<env, codec, boot>>

\* one step of the request on connection s
Step(s) ==
  \/ Denied(s)
  \/ Status(s)
  \/ SellPrice(s) \/ SellPriceRoute(s)
  \/ BuyPrice(s) \/ BuyPriceRoute(s)
  \/ Sell(s) \/ SellRoute(s) \/ SellExec(s)
  \/ Buy(s) \/ BuyRoute(s) \/ BuyExec(s)
  \/ BalPrice(s) \/ BalPriceSwaps(s)
  \/ BalTrade(s) \/ BalTradeSwaps(s) \/ BalTradeExec(s)
  \/ Close(s)

Next == \E s \in Slots : Step(s)

Spec == Init /\ [][Next]_vars

\* ------------------------------------------------ two requests in flight
\* two connections, whose requests interleave at every await; their inputs
\* and adapter results are drawn from the reduced sets below
ConcSlots == {1, 2}
ParamsConc ==
  [ base : {"TOKEN_A"}, quote : {"TOKEN_B"}, amount : {1},
    maxPrice : {Absent, Str(<<"1">>)}, keyValid : BOOLEAN ]
CertsConc ==
  { [authorized |-> TRUE, subject |-> TRUE], [authorized |-> FALSE, subject |-> FALSE] }
FailureConc == [name |-> "Error", hasReason |-> TRUE, reason |-> "execution reverted"]
RouteResultsConc ==
  { [kind |-> "route", midPrice |-> [num |-> 1, den |-> 2], err |-> NoErr],
    [kind |-> "route", midPrice |-> [num |-> 2, den |-> 1], err |-> NoErr],
    [kind |-> "null", midPrice |-> NoFraction, err |-> NoErr],
    [kind |-> "error", midPrice |-> NoFraction, err |-> FailureConc] }
SwapsResultsConc ==
  { [kind |-> "swaps", expectedOut |-> 0, err |-> NoErr],
    [kind |-> "swaps", expectedOut |-> 1, err |-> NoErr],
    [kind |-> "error", expectedOut |-> 0, err |-> FailureConc] }
ExecResultsConc ==
  { [kind |-> "receipt", err |-> NoErr,
     receipt |-> [transactionHash |-> "0xaa", gasUsed |-> 1, status |-> 1]],
    [kind |-> "error", receipt |-> NoReceipt, err |-> FailureConc] }

ConcInputs ==
  \A s \in DOMAIN reqs :
    LET r == reqs[s] IN
    r.pc # "idle" =>
      /\ r.params \in ParamsConc
      /\ r.cert \in CertsConc
      /\ r.route \in RouteResultsConc \cup {NoRouteResult}
      /\ r.swaps \in SwapsResultsConc \cup {NoSwapsResult}
      /\ r.exec \in ExecResultsConc \cup {NoExecResult}

InitConc ==
  /\ reqs = [s \in ConcSlots |-> Idle]
  /\ env \in [ETH_PRIVATE_KEY_valid : BOOLEAN]
  /\ codec = CodecIdle
  /\ boot = BootIdle

NextConc ==
  \E s \in ConcSlots :
    \/ Denied(s) /\ ConcInputs'
    \/ Status(s) /\ ConcInputs'
    \/ SellPrice(s) /\ ConcInputs'
    \/ SellPriceRoute(s) /\ ConcInputs'
    \/ BuyPrice(s) /\ ConcInputs'
    \/ BuyPriceRoute(s) /\ ConcInputs'
    \/ Sell(s) /\ ConcInputs'
    \/ SellRoute(s) /\ ConcInputs'
    \/ SellExec(s) /\ ConcInputs'
    \/ Buy(s) /\ ConcInputs'
    \/ BuyRoute(s) /\ ConcInputs'
    \/ BuyExec(s) /\ ConcInputs'
    \/ BalPrice(s) /\ ConcInputs'
    \/ BalPriceSwaps(s) /\ ConcInputs'
    \/ BalTrade(s) /\ ConcInputs'
    \/ BalTradeSwaps(s) /\ ConcInputs'
    \/ BalTradeExec(s) /\ ConcInputs'
    \/ Close(s) /\ ConcInputs'

SpecConc == InitConc /\ [][NextConc]_vars

\* ----------------------------------------------------------- start-up
\* the characters of a command's output and of the port: a digit, a space,
\* a letter
StdoutChars == {"1", " ", "p"}
Stdouts == UNION {[1..n -> StdoutChars] : n \in 0..MaxStdout}
\* the port when it is a pipe name
PipeName == <<"p">>

RECURSIVE TrimRight(_)
TrimRight(s) ==
  IF s # <<>> /\ s[Len(s)] = " " THEN TrimRight(SubSeq(s, 1, Len(s) - 1)) ELSE s

\* isNaN(str): Number(str) is NaN unless the trimmed string is empty or all
\* digits
isNaN(s) ==
  LET t == TrimRight(TrimLeft(s)) IN \E i \in DOMAIN t : ~IsDigit(t[i])

\* function isNumeric(str)
isNumeric(s) == ~isNaN(s) /\ parseFloat(s).kind = "number"

\* function lastword(words): what follows the last space
RECURSIVE lastword(_)
lastword(words) ==
  IF words = <<>> \/ words[Len(words)] = " " THEN <<>>
  ELSE lastword(SubSeq(words, 1, Len(words) - 1)) \o <<words[Len(words)]>>

\* stdout.indexOf(query) > -1
Contains(s, q) ==
  \E i \in 1..(Len(s) - Len(q) + 1) : SubSeq(s, i, i + Len(q) - 1) = q

\* what the exec callback of isRunning passes to cb, as the string
\* process.env keeps
CallbackStatus(isPid, stdout) ==
  IF isPid THEN (IF isNumeric(stdout) THEN stdout ELSE lastword(stdout))
  ELSE IF Contains(stdout, PipeName) THEN <<"t", "r", "u", "e">>
       ELSE <<"f", "a", "l", "s", "e">>

InitBoot ==
  /\ reqs = [s \in Slots |-> Idle]
  /\ env = [ETH_PRIVATE_KEY_valid |-> TRUE]
  /\ codec = CodecIdle
  /\ boot \in { [BootIdle EXCEPT !.pc = "start", !.portIsPipe = n, !.DB_PID = p] :
                  n \in BOOLEAN, p \in {Absent, Str(<<"1">>)} }

\* the try block of index.js, which runs to its end before any callback:
\* isRunning starts the command, the server listens, serverConfig is built
\* from process.env.DB_PID and logged
Startup ==
  /\ boot.pc = "start"
  /\ boot' = [boot EXCEPT !.pc = "listening",
                           !.serverConfig = [built |-> TRUE, pid |-> boot.DB_PID]]
  /\ UNCHANGED <<reqs, env, codec>>

\* the callback of exec in isRunning, and the callback it calls:
\* process.env.DB_PID = status
isRunning ==
  \E stdout \in Stdouts :
    LET st == Str(CallbackStatus(~boot.portIsPipe, stdout)) IN
    /\ boot.pc = "listening"
    /\ boot' = [boot EXCEPT !.pc = "reported", !.stdout = stdout,
                             !.status = st, !.DB_PID = st]
    /\ UNCHANGED <<reqs, env, codec>>

NextBoot == Startup \/ isRunning

SpecBoot == InitBoot /\ [][NextBoot]_vars

\* ------------------------------------------- the amount conversion alone
InitCodec ==
  /\ reqs = [s \in Slots |-> Idle]
  /\ env = [ETH_PRIVATE_KEY_valid |-> TRUE]
  /\ codec \in {[pc |-> "input", amount |-> a, units |-> <<>>] : a \in Amounts}
  /\ boot = BootIdle

\* const amount = new BigNumber(parseInt(paramData.amount * denomMultiplier))
Convert ==
  /\ codec.pc = "input"
  /\ codec' = [codec EXCEPT !.pc = "done", !.units = toBaseUnits(codec.amount)]
  /\ UNCHANGED <<reqs, env, boot>>

NextCodec == Convert

SpecCodec == InitCodec /\ [][NextCodec]_vars

\* ============================================================ properties
Trades == TradeEndpoints \cup {"bal-trade"}
Quotes == QuoteEndpoints \cup {"bal-price"}

\* the guard of request r rejected / passed (a request evaluates it at most once)
Rejected(r) == r.guardEvals # <<>> /\ ~r.guardEvals[Len(r.guardEvals)].passed
Passed(r) == r.guardEvals # <<>> /\ r.guardEvals[Len(r.guardEvals)].passed

\* C1 (as claimed): in every evaluation of the guard of a trade handler, when
\* no maxPrice is supplied (the parameter is missing or empty) the guard
\* passes, and when a maxPrice b is supplied (0 and texts that are not numbers
\* included) the guard passes iff the observed price p satisfies p >= b for a
\* SELL and p <= b for a BUY.
C1_GuardIffComparison ==
  \A s \in Slots :
    LET r == reqs[s] IN
    \A i \in DOMAIN r.guardEvals :
      LET g == r.guardEvals[i]
          b == parseFloat(r.params.maxPrice.text)
      IN  g.passed <=>
            IF ~r.params.maxPrice.present \/ r.params.maxPrice.text = <<>> THEN TRUE
            ELSE /\ b.kind = "number"
                 /\ CASE r.ep = "sell" -> g.price.m >= b.val * Pow10(g.price.e)
                      [] r.ep = "buy"  -> g.price.m <= b.val * Pow10(g.price.e)
                      [] OTHER         -> g.price.num <= b.val * g.price.den

\* C2: the executor is called only by a request whose guard was evaluated
\* and passed before the call, and a request whose guard rejected has not
\* called the executor.
C2_ExecutorOnlyAfterGuardPassed ==
  \A s \in Slots :
    LET r == reqs[s] IN
    /\ r.execCalls # <<>> => Passed(r)
    /\ Rejected(r) => r.execCalls = <<>>

\* a trade whose bound was really compared has called the executor
C2_Witness ==
  \E s \in Slots :
    LET r == reqs[s] IN
    /\ r.ep \in Trades /\ r.pc = "awaitExec"
    /\ ~Not(r.maxPrice) /\ Passed(r) /\ Len(r.execCalls) = 1

\* C3 (as claimed): on every endpoint, a request whose route query returned
\* no route ends with the single response 200 {error: "no_pool_available",
\* message: ""}, and neither the guard nor the executor has run.
C3_NoRouteIsSoft ==
  \A s \in Slots :
    LET r == reqs[s] IN
    (r.ep \in QuoteEndpoints \cup TradeEndpoints /\ r.route.kind = "null") =>
      /\ r.pc = "finished"
      /\ Len(r.resp) = 1
      /\ r.resp[1].status = 200
      /\ r.resp[1].body.error = "no_pool_available"
      /\ r.resp[1].body.message = <<>>
      /\ r.guardEvals = <<>>
      /\ r.execCalls = <<>>

\* C4 (as claimed, in the form a finite run refutes): a quote or trade
\* handler of either backend that has returned has sent a response.
C4_ReturnedHandlerResponded ==
  \A s \in Slots :
    LET r == reqs[s] IN
    (r.ep \in Quotes \cup Trades /\ r.pc = "finished") => Len(r.resp) = 1

\* C5: a /sell or /buy request whose guard rejected has sent exactly one
\* response, with status 200, error "Swap price lower than maxPrice" (SELL)
\* or "Swap price exceeds maxPrice" (BUY) and a message holding the observed
\* price and the bound; no request whose guard rejected sends a 500.
C5_GuardRejectionIsSoft ==
  \A s \in Slots :
    LET r == reqs[s] IN
    Rejected(r) =>
      /\ \A i \in DOMAIN r.resp : r.resp[i].status # 500
      /\ r.ep \in TradeEndpoints =>
           /\ r.pc = "finished"
           /\ Len(r.resp) = 1
           /\ r.resp[1].status = 200
           /\ r.resp[1].body.error =
                (IF r.ep = "sell" THEN "Swap price lower than maxPrice"
                                  ELSE "Swap price exceeds maxPrice")
           /\ Len(r.resp[1].body.message) = 4
           /\ r.resp[1].body.message[2] = r.guardEvals[1].price
           /\ r.resp[1].body.message[4] = r.guardEvals[1].bound
           /\ r.guardEvals[1].bound = parseFloat(r.params.maxPrice.text)

C5_Witness ==
  \E s \in Slots :
    /\ reqs[s].ep = "sell" /\ Rejected(reqs[s]) /\ Len(reqs[s].resp) = 1

\* the failure of the route query or of the executor of request r
Failure(r) == IF r.route.kind = "error" THEN r.route.err ELSE r.exec.err

\* C6: in the constant-product handlers, a request whose route query or
\* executor failed has sent exactly one response, with status 500, error the
\* failure's reason when it has a non-empty one and "operation_error"
\* otherwise, and message the failure itself.
C6_FailureIsClassified ==
  \A s \in Slots :
    LET r == reqs[s]
        err == Failure(r)
    IN
    (r.ep \in QuoteEndpoints \cup TradeEndpoints
       /\ (r.route.kind = "error" \/ r.exec.kind = "error")) =>
      /\ r.pc = "finished"
      /\ Len(r.resp) = 1
      /\ r.resp[1].status = 500
      /\ r.resp[1].body.message = <<err>>
      /\ (err.hasReason /\ err.reason # "") => r.resp[1].body.error = err.reason
      /\ ~(err.hasReason /\ err.reason # "") => r.resp[1].body.error = "operation_error"

\* an executor failure that carries a reason has been answered
C6_Witness ==
  \E s \in Slots :
    /\ reqs[s].ep \in TradeEndpoints
    /\ reqs[s].exec.kind = "error"
    /\ reqs[s].exec.err.reason = "execution reverted"
    /\ reqs[s].resp # <<>>

\* C7: a quote request (sell-price, buy-price, balancer /price) never
\* parses or evaluates a price bound, never constructs a wallet and never
\* calls the executor; when its route query returns a route it ends with a
\* single 200 response that carries the price and no receipt field.
C7_QuotesNeverGuardOrExecute ==
  \A s \in Slots :
    LET r == reqs[s] IN
    r.ep \in Quotes =>
      /\ r.guardEvals = <<>>
      /\ r.maxPrice = Undefined
      /\ ~r.wallet
      /\ r.execCalls = <<>>
      /\ r.pc # "awaitExec"
      /\ (r.route.kind = "route" \/ r.swaps.kind = "swaps") =>
           /\ r.pc = "finished"
           /\ Len(r.resp) = 1
           /\ r.resp[1].status = 200
           /\ "price" \in DOMAIN r.resp[1].body
           /\ "txHash" \notin DOMAIN r.resp[1].body

\* a quote that came with a usable maxPrice and private key has been priced
C7_Witness ==
  \E s \in Slots :
    LET r == reqs[s] IN
    /\ r.ep = "sell-price" /\ r.pc = "finished" /\ r.route.kind = "route"
    /\ Truthy(r.params.maxPrice) /\ r.params.keyValid
    /\ Len(r.resp) = 1 /\ r.resp[1].status = 200

\* C8: a trade request calls the executor at most once; once the executor
\* has failed the request is over (it does not wait for the executor again),
\* and in /sell and /buy it has sent the single 500 response of the failure.
C8_ExecutorAtMostOnce ==
  \A s \in Slots :
    LET r == reqs[s] IN
    /\ Len(r.execCalls) <= 1
    /\ r.exec.kind = "error" =>
         /\ Len(r.execCalls) = 1
         /\ r.pc \in {"finished", "crashed"}
         /\ r.ep \in TradeEndpoints =>
              /\ r.pc = "finished"
              /\ Len(r.resp) = 1
              /\ r.resp[1].status = 500

C8_Witness ==
  \E s \in Slots :
    LET r == reqs[s] IN
    /\ r.ep = "sell" /\ r.exec.kind = "error" /\ r.pc = "finished"
    /\ Len(r.execCalls) = 1 /\ Len(r.resp) = 1

\* a response that reports a completed trade
IsTradeSuccess(r, i) ==
  r.ep \in Trades /\ r.resp[i].status = 200 /\ "txHash" \in DOMAIN r.resp[i].body

\* C9 (as claimed): in both backends a trade success response is sent only
\* once the executor has returned a receipt, and it carries gasUsed, txHash
\* and status equal to the receipt's.
C9_SuccessCarriesReceipt ==
  \A s \in Slots :
    LET r == reqs[s] IN
    \A i \in DOMAIN r.resp :
      IsTradeSuccess(r, i) =>
        /\ r.exec.kind = "receipt"
        /\ r.resp[i].body.txHash = r.exec.receipt.transactionHash
        /\ "gasUsed" \in DOMAIN r.resp[i].body
        /\ "status" \in DOMAIN r.resp[i].body
        /\ r.resp[i].body.gasUsed = Num(r.exec.receipt.gasUsed)
        /\ r.resp[i].body.status = r.exec.receipt.status

\* the price a request must work with: the route's marginal price for a
\* SELL, its reciprocal for a BUY
ExpectedPrice(ep, mid) ==
  IF ep \in {"sell", "sell-price"} THEN mid ELSE [num |-> mid.den, den |-> mid.num]

\* the decimal p is the fraction f rounded to SigDigits significant digits
Rounds(p, f) ==
  LET d == 2 * p.m * f.den - 2 * f.num * Pow10(p.e) IN
  /\ Pow10(SigDigits - 1) <= p.m /\ p.m <= Pow10(SigDigits)
  /\ -f.den <= d /\ d <= f.den

\* C10: in sell-price, buy-price, sell and buy, the route query is called
\* with (base, quote) for a SELL and (quote, base) for a BUY; the price the
\* guard compares and every price a response reports is the route's marginal
\* price for a SELL and its reciprocal for a BUY (to 8 significant digits),
\* the reported price being the compared one; the executor is given base as
\* tokenIn for a SELL and quote for a BUY.
C10_DirectionHandling ==
  \A s \in Slots :
    LET r == reqs[s]
        sell == r.ep \in {"sell", "sell-price"}
        want == ExpectedPrice(r.ep, r.route.midPrice)
    IN
    (r.ep \in QuoteEndpoints \cup TradeEndpoints /\ r.routeCalls # <<>>) =>
      /\ Len(r.routeCalls) = 1
      /\ r.routeCalls[1].tokenIn = (IF sell THEN r.params.base ELSE r.params.quote)
      /\ r.routeCalls[1].tokenOut = (IF sell THEN r.params.quote ELSE r.params.base)
      /\ \A i \in DOMAIN r.guardEvals : Rounds(r.guardEvals[i].price, want)
      /\ \A i \in DOMAIN r.resp :
           (r.resp[i].status = 200 /\ "price" \in DOMAIN r.resp[i].body) =>
             /\ Rounds(r.resp[i].body.price, want)
             /\ r.ep \in TradeEndpoints => r.resp[i].body.price = r.guardEvals[1].price
      /\ \A i \in DOMAIN r.execCalls :
           r.execCalls[i].tokenIn = (IF sell THEN r.params.base ELSE r.params.quote)
      /\ r.route.kind = "route" => r.ep \in QuoteEndpoints \/ r.guardEvals # <<>>

\* a BUY of distinct tokens at a price that differs from its reciprocal has
\* been guarded against a real bound, executed and reported
C10_Witness ==
  \E s \in Slots :
    LET r == reqs[s] IN
    /\ r.ep = "buy" /\ r.pc = "finished" /\ r.exec.kind = "receipt"
    /\ r.params.base # r.params.quote
    /\ r.route.midPrice.num # r.route.midPrice.den
    /\ ~Not(r.maxPrice)
    /\ Len(r.resp) = 1 /\ r.resp[1].status = 200

\* C11 (as claimed): for every amount a > 0, large ones included, the base
\* units the trade handlers compute are a non-negative integer within one
\* base unit of a * 10^18: for a whole amount m * 10^k, exactly the digits of
\* m followed by k + 18 zeros (amount 1 gives 1 followed by 18 zeros).
C11_BaseUnitsExact ==
  codec.pc = "done" =>
    LET d == toString(codec.amount.m) IN
    /\ Len(codec.units) = Len(d) + codec.amount.k + 18
    /\ \A i \in DOMAIN codec.units :
         /\ IsDigit(codec.units[i])
         /\ codec.units[i] = (IF i <= Len(d) THEN d[i] ELSE "0")

\* C12 (as claimed): no failure escapes a handler: no handler's promise
\* rejects, and a request in which the route query or the executor failed,
\* in either backend, has sent one 500 response with error and message.
C12_NoFailureEscapes ==
  \A s \in DOMAIN reqs :
    LET r == reqs[s] IN
    /\ r.pc # "crashed"
    /\ (r.route.kind = "error" \/ r.swaps.kind = "error" \/ r.exec.kind = "error") =>
         /\ Len(r.resp) = 1
         /\ r.resp[1].status = 500
         /\ {"error", "message"} \subseteq DOMAIN r.resp[1].body

\* C14: a request to sell-price, buy-price, sell or buy has sent at most one
\* response at any time: never a success-class body and a 500 body.
C14_AtMostOneResponse ==
  \A s \in DOMAIN reqs :
    LET r == reqs[s] IN
    r.ep \in QuoteEndpoints \cup TradeEndpoints =>
      /\ Len(r.resp) <= 1
      /\ ~\E i, j \in DOMAIN r.resp : r.resp[i].status = 200 /\ r.resp[j].status = 500

\* a /sell whose guard passed and whose executor returned a receipt has
\* answered once
C14_Witness ==
  \E s \in DOMAIN reqs :
    LET r == reqs[s] IN
    /\ r.ep = "sell" /\ r.pc = "finished" /\ r.exec.kind = "receipt"
    /\ Len(r.resp) = 1 /\ r.resp[1].status = 200

\* C15: a request to the constant-product router whose client is not
\* authorized is answered by the middleware alone, 403 when its certificate
\* has a subject and 401 when it has none, and no handler code has run for
\* it: no wallet, no route query, no guard evaluation, no executor call.
C15_UnauthorizedNeverHandled ==
  \A s \in DOMAIN reqs :
    LET r == reqs[s] IN
    (r.ep \in UniswapEndpoints /\ ~r.cert.authorized) =>
      /\ r.pc = "finished"
      /\ Len(r.resp) = 1
      /\ r.resp[1].status = (IF r.cert.subject THEN 403 ELSE 401)
      /\ DOMAIN r.resp[1].body = {"error"}
      /\ ~r.wallet
      /\ r.routeCalls = <<>>
      /\ r.guardEvals = <<>>
      /\ r.execCalls = <<>>

\* a /sell without certificate was answered 401
C15_Witness ==
  \E s \in DOMAIN reqs :
    LET r == reqs[s] IN
    /\ r.ep = "sell" /\ ~r.cert.authorized /\ ~r.cert.subject
    /\ r.params.keyValid
    /\ Len(r.resp) = 1 /\ r.resp[1].status = 401

\* the handler of request r is over
Over(r) == r.pc \in {"finished", "crashed"}

\* two requests with the same endpoint, certificate and parameters that
\* received the same adapter results ended the same way
SameOutcome ==
  \A s, t \in DOMAIN reqs :
    LET r == reqs[s]
        q == reqs[t]
    IN
    (/\ Over(r) /\ Over(q)
     /\ r.ep = q.ep /\ r.cert = q.cert /\ r.params = q.params
     /\ r.route = q.route /\ r.swaps = q.swaps /\ r.exec = q.exec) =>
      /\ r.pc = q.pc
      /\ r.resp = q.resp

\* a step is the step of one request: it leaves every other request and the
\* process-wide state as they were
OwnStep ==
  /\ \E s \in DOMAIN reqs : \A t \in DOMAIN reqs \ {s} : reqs'[t].pc = reqs[t].pc /\ reqs'[t] = reqs[t]
  /\ env' = env

\* C13: with two requests in flight under every interleaving of their steps,
\* each step changes only its own request and no process-wide state, and two
\* requests with the same parameters and the same adapter results end in the
\* same terminal state with the same response, whatever the other did.
C13_RequestsIndependent == []SameOutcome /\ [][OwnStep]_vars

\* two /sell requests of the same signer on the same pool were in flight
\* together and ended differently because their routes differed
C13_Witness ==
  /\ DOMAIN reqs = ConcSlots
  /\ reqs[1].ep = "sell" /\ reqs[2].ep = "sell"
  /\ reqs[1].params = reqs[2].params
  /\ reqs[1].pc = "finished" /\ reqs[2].pc = "awaitExec"
  /\ Rejected(reqs[1]) /\ Passed(reqs[2])

\* C16 (as claimed): once the isRunning callback has reported, the pid of
\* the logged serverConfig is the value the callback stored in
\* process.env.DB_PID.
C16_ConfigPidIsReportedPid ==
  (boot.pc = "reported" /\ boot.serverConfig.built) =>
    boot.serverConfig.pid = boot.DB_PID

====
